---- MODULE Spec2Model ----
(***************************************************************************)
(* CryptoTransactionAnalyzer (src/Code.py): the wallet-analysis engine.    *)
(*                                                                         *)
(* A DataFrame is a record [columns, amount_dtype, rows]; a row carries    *)
(* its index label idx, so that two rows with equal fields stay distinct.  *)
(* Amounts are exact and counted in halves (1.5 is 3, 2.0 is 4, 9950 is    *)
(* 19900).  A timestamp is either the ISO text <<"str", day, hour, minute, *)
(* second>> or, once pd.to_datetime has been applied, the instant          *)
(* <<"datetime64", seconds>>.  A rate is the exact fraction <<num, den>>.  *)
(* A call either returns, [exc |-> "none", value |-> v], or raises,        *)
(* [exc |-> "KeyError"] / [exc |-> "AttributeError"].                      *)
(***************************************************************************)
EXTENDS Integers, Sequences, FiniteSets, TLC

VARIABLES
    transactions,      \* the DataFrame the caller holds and passes to the methods
    risk_indicators,   \* self.risk_indicators
    int_is_integer,    \* whether the interpreter's int has is_integer() (Python >= 3.12)
    call,              \* the last method call: its name, arguments and the frame passed
    ret                \* what that call returned or raised

vars == <<transactions, risk_indicators, int_is_integer, call, ret>>

(***************************** bounds **************************************)
MaxTx == 2          \* rows of a frame under Spec (every method)
MaxWalletTx == 2    \* rows of a frame under SpecWallet
MaxRiskTx == 2      \* rows of a frame under SpecRisk
MaxVelocityTx == 3  \* rows of a frame under SpecVelocity
MaxPartyTx == 3     \* rows of a frame under SpecCounterparty
MaxTopN == 2        \* largest explicit top_n under SpecCounterparty

(***************************** helpers *************************************)
Min(a, b) == IF a <= b THEN a ELSE b
Max(a, b) == IF a >= b THEN a ELSE b
SeqsUpTo(S, n) == UNION {[1..k -> S] : k \in 0..n}
Halves(whole, half) == 2 * whole + half

Return(v) == [exc |-> "none", value |-> v]
Raise(e) == [exc |-> e]

(************************* __init__ ****************************************)
DefaultTopN == 5

InitialRiskIndicators ==
    [mixing_service |-> <<"tornado.cash", "wasabi", "samourai">>,
     high_risk_jurisdictions |-> <<"sanctioned-country-1", "sanctioned-country-2">>,
     suspicious_patterns |-> [structuring |-> 9999, velocity |-> 5, round_amounts |-> TRUE]]

(************************* load_transactions *******************************)
\* pd.DataFrame(data): the columns are the keys of the records (none at all
\* for an empty list); a column of integer literals only is int64, any
\* float literal makes it float64.
Columns == {"timestamp", "from_address", "to_address", "amount"}

load_transactions(data) ==
    [columns |-> IF data = <<>> THEN {} ELSE Columns,
     amount_dtype |-> IF data = <<>> THEN "object"
                      ELSE IF \A i \in DOMAIN data : data[i].amount.lit = "int"
                           THEN "int64" ELSE "float64",
     rows |-> [i \in DOMAIN data |->
                 [idx |-> i - 1,
                  timestamp |-> data[i].timestamp,
                  from_address |-> data[i].from_address,
                  to_address |-> data[i].to_address,
                  amount |-> data[i].amount.halves]]]

(************************* check_risk_indicators ***************************)
Finding(text, name) == [text |-> text, name |-> name]
MixingFinding(mixer) == Finding("Interaction with mixing service: ", mixer)
StructuringFinding == Finding("Potential structuring detected", "")
RoundFinding == Finding("Multiple round-number transactions", "")

\* float.is_integer() on an amount counted in halves
is_integer(amount) == amount % 2 = 0

StructuringBand(amount) == amount > Halves(9900, 0) /\ amount < Halves(10000, 0)

check_risk_indicators(txs, indicators, has_is_integer) ==
    IF "to_address" \notin txs.columns THEN Raise("KeyError")
    ELSE
    LET to_values == {txs.rows[i].to_address : i \in DOMAIN txs.rows}
        Hit(mixer) == mixer \in to_values
        mixers == SelectSeq(indicators.mixing_service, Hit)
        risks1 == [i \in DOMAIN mixers |-> MixingFinding(mixers[i])]
        amounts == [i \in DOMAIN txs.rows |-> txs.rows[i].amount]
        risks2 == IF \E i \in DOMAIN amounts : StructuringBand(amounts[i])
                  THEN Append(risks1, StructuringFinding) ELSE risks1
    IN  IF ~indicators.suspicious_patterns.round_amounts THEN Return(risks2)
        ELSE IF txs.amount_dtype = "int64" /\ amounts # <<>> /\ ~has_is_integer
             THEN Raise("AttributeError")   \* 'int' object has no attribute 'is_integer'
        ELSE IF \E i \in DOMAIN amounts : is_integer(amounts[i])
             THEN Return(Append(risks2, RoundFinding))
        ELSE Return(risks2)

(************************* calculate_velocity ******************************)
to_datetime(t) ==
    IF t[1] = "str"
    THEN <<"datetime64", (((t[2] - 1) * 24 + t[3]) * 60 + t[4]) * 60 + t[5]>>
    ELSE t

\* the frame as calculate_velocity leaves it: line 68 assigns the parsed
\* column back into the frame it was given
velocity_frame(txs) ==
    IF Len(txs.rows) = 0 THEN txs
    ELSE [txs EXCEPT !.rows = [i \in DOMAIN txs.rows |->
              [txs.rows[i] EXCEPT !.timestamp = to_datetime(txs.rows[i].timestamp)]]]

\* a divisor without the floor: hours itself
Unfloored(seconds, unit) == <<seconds, unit>>

\* max(hours, 1) with hours = seconds / 3600, as the fraction <<num, den>>
FloorAtOne(seconds, unit) == IF seconds > unit THEN <<seconds, unit>> ELSE <<1, 1>>

calculate_velocity(txs) ==
    IF Len(txs.rows) = 0 THEN Return([hourly_avg |-> <<0, 1>>, daily_avg |-> <<0, 1>>])
    ELSE IF "timestamp" \notin txs.columns THEN Raise("KeyError")
    ELSE
    LET stamps == {to_datetime(txs.rows[i].timestamp)[2] : i \in DOMAIN txs.rows}
        hi == CHOOSE s \in stamps : \A u \in stamps : u <= s
        lo == CHOOSE s \in stamps : \A u \in stamps : s <= u
        seconds == hi - lo
        hours == FloorAtOne(seconds, 3600)
        days == FloorAtOne(seconds, 3600 * 24)
        n == Len(txs.rows)
    IN  Return([hourly_avg |-> <<n * hours[2], hours[1]>>,
                daily_avg |-> <<n * days[2], days[1]>>])

(************************* get_top_counterparties **************************)
\* counterparty_volumes: a dict, kept as the sequence of its items in
\* insertion order
DictAdd(d, key, amount) ==
    IF \E i \in DOMAIN d : d[i].address = key
    THEN [i \in DOMAIN d |-> IF d[i].address = key
                             THEN [d[i] EXCEPT !.volume = @ + amount] ELSE d[i]]
    ELSE Append(d, [address |-> key, volume |-> 0 + amount])

\* attribution to the recipient whatever the wallet's role
CounterpartyRecipient(address, tx) == tx.to_address

Counterparty(address, tx) ==
    IF tx.from_address = address THEN tx.to_address ELSE tx.from_address

RECURSIVE CounterpartyVolumes(_, _)
CounterpartyVolumes(address, rows) ==
    IF rows = <<>> THEN <<>>
    ELSE LET tx == rows[Len(rows)]
         IN  DictAdd(CounterpartyVolumes(address, SubSeq(rows, 1, Len(rows) - 1)),
                     Counterparty(address, tx), tx.amount)

\* sorted(..., key=volume, reverse=True): stable, equal volumes keep their order
InsertDesc(s, x) ==
    LET before == {i \in DOMAIN s : s[i].volume >= x.volume}
        k == Cardinality(before)
    IN  SubSeq(s, 1, k) \o <<x>> \o SubSeq(s, k + 1, Len(s))

RECURSIVE SortedDesc(_)
SortedDesc(s) ==
    IF s = <<>> THEN <<>>
    ELSE InsertDesc(SortedDesc(SubSeq(s, 1, Len(s) - 1)), s[Len(s)])

\* a slice that keeps one entry too many
SliceInclusive(s, n) == SubSeq(s, 1, Min(n + 1, Len(s)))

\* s[:n], a negative n counting from the end
Slice(s, n) ==
    IF n >= 0 THEN SubSeq(s, 1, Min(n, Len(s)))
    ELSE SubSeq(s, 1, Max(Len(s) + n, 0))

get_top_counterparties(address, txs, top_n) ==
    Return(Slice(SortedDesc(CounterpartyVolumes(address, txs.rows)), top_n))

(************************* analyze_counterparties **************************)
\* the two one-directional counts added up
UniqueCountSummed(sent_to, received_from) ==
    Cardinality(sent_to) + Cardinality(received_from)

\* len(set(sent_to) | set(received_from))
UniqueCount(sent_to, received_from) == Cardinality(sent_to \cup received_from)

analyze_counterparties(address, txs) ==
    IF "from_address" \notin txs.columns THEN Raise("KeyError")
    ELSE
    LET sent_to == {txs.rows[i].to_address :
                       i \in {j \in DOMAIN txs.rows : txs.rows[j].from_address = address}}
        received_from == {txs.rows[i].from_address :
                       i \in {j \in DOMAIN txs.rows : txs.rows[j].to_address = address}}
    IN  Return([unique_counterparties |-> UniqueCount(sent_to, received_from),
                top_counterparties |->
                    get_top_counterparties(address, txs, DefaultTopN).value])

(************************* analyze_wallet **********************************)
Involves(address, tx) == tx.from_address = address \/ tx.to_address = address

\* transactions[mask]: a new frame holding the selected rows in order
WalletTxs(address, txs) ==
    LET Keep(tx) == Involves(address, tx)
    IN  [txs EXCEPT !.rows = SelectSeq(txs.rows, Keep)]

RECURSIVE SumAmounts(_)
SumAmounts(rows) ==
    IF rows = <<>> THEN 0
    ELSE SumAmounts(SubSeq(rows, 1, Len(rows) - 1)) + rows[Len(rows)].amount

\* the entries of the analysis dict are evaluated in order; the first that
\* raises ends the call.  wallet_txs is the local the entries are built from.
analyze_wallet(address, txs, indicators, has_is_integer) ==
    IF "from_address" \notin txs.columns THEN Raise("KeyError")
    ELSE
    LET wallet_txs == WalletTxs(address, txs)
        risks == check_risk_indicators(wallet_txs, indicators, has_is_integer)
        velocity == calculate_velocity(wallet_txs)
        parties == analyze_counterparties(address, velocity_frame(wallet_txs))
    IN  IF risks.exc # "none" THEN [exc |-> risks.exc, wallet_txs |-> wallet_txs]
        ELSE IF velocity.exc # "none" THEN [exc |-> velocity.exc, wallet_txs |-> wallet_txs]
        ELSE IF parties.exc # "none" THEN [exc |-> parties.exc, wallet_txs |-> wallet_txs]
        ELSE [exc |-> "none",
              wallet_txs |-> wallet_txs,
              value |-> [address |-> address,
                         total_transactions |-> Len(wallet_txs.rows),
                         total_volume |-> SumAmounts(wallet_txs.rows),
                         risk_indicators |-> risks.value,
                         transaction_velocity |-> velocity.value,
                         counterparties |-> parties.value]]

(************************* inputs ******************************************)
JsonNumber(lit, whole, half) == [lit |-> lit, halves |-> Halves(whole, half)]
Stamp(day, hour, minute, second) == <<"str", day, hour, minute, second>>
T0 == Stamp(1, 10, 0, 0)

JsonTx(stamps, froms, tos, amounts) ==
    [timestamp : stamps, from_address : froms, to_address : tos, amount : amounts]

\* the frames load_transactions builds from lists of at most n records
Loaded(records, n) == {load_transactions(d) : d \in SeqsUpTo(records, n)}

\* the frames the methods called by analyze_wallet are handed: a loaded
\* frame with rows, or the selection analyze_wallet makes from one
Frames(records, n, addresses) ==
    LET loaded == {f \in Loaded(records, n) : f.rows # <<>>}
    IN  loaded \cup {WalletTxs(a, f) : a \in addresses, f \in loaded}

\* Spec: every method
AllAmounts == {JsonNumber("float", 1, 1), JsonNumber("int", 9950, 0)}
AllTx == JsonTx({T0, Stamp(1, 12, 0, 0)}, {"A", "tornado.cash"},
                {"A", "B", "tornado.cash"}, AllAmounts)
AllAddresses == {"A", "B", "D"}

\* SpecWallet: analyze_wallet on loaded frames
WalletAmounts == {JsonNumber("float", 1, 1), JsonNumber("int", 2, 0)}
WalletTx == JsonTx({T0, Stamp(1, 12, 0, 0)}, {"A", "B", "C"}, {"A", "B", "C"},
                   WalletAmounts)
WalletAddresses == {"A", "B", "D"}

\* SpecRisk: 1.5, 9899, 9900.0, 9950, 9999.5, 10000
RiskAmounts ==
    {JsonNumber("float", 1, 1), JsonNumber("int", 9899, 0), JsonNumber("float", 9900, 0),
     JsonNumber("int", 9950, 0), JsonNumber("float", 9999, 1), JsonNumber("int", 10000, 0)}
RiskTx == JsonTx({T0}, {"A", "tornado.cash"}, {"A", "tornado.cash", "wasabi"}, RiskAmounts)

\* SpecVelocity: spans of 0 s, 30 s, 1 h, 1 h 30 s, 1 day, 1 day 30 s, 2 days
VelocityStamps ==
    {T0, Stamp(1, 10, 0, 30), Stamp(1, 11, 0, 0), Stamp(1, 11, 0, 30),
     Stamp(2, 10, 0, 0), Stamp(2, 10, 0, 30), Stamp(3, 10, 0, 0)}
VelocityTx == JsonTx(VelocityStamps, {"A"}, {"B"}, {JsonNumber("float", 1, 1)})

\* SpecCounterparty: wallet "A", counterparties "B" and "C", amounts 1.5 and 2.0
PartyAmounts == {JsonNumber("float", 1, 1), JsonNumber("float", 2, 0)}
PartyTx ==
    {r \in JsonTx({T0}, {"A", "B", "C"}, {"A", "B", "C"}, PartyAmounts) :
        r.from_address = "A" \/ r.to_address = "A"
            \/ (r.from_address = "B" /\ r.to_address = "C")}
PartyAddresses == {"A"}
TopNs == (-1 .. MaxTopN) \cup {DefaultTopN}

(************************* actions *****************************************)
Called(op, address, top_n) ==
    call' = [op |-> op, address |-> address, top_n |-> top_n,
             transactions |-> transactions, self |-> risk_indicators]

AnalyzeWallet(address) ==
    /\ Called("analyze_wallet", address, 0)
    /\ ret' = analyze_wallet(address, transactions, risk_indicators, int_is_integer)
    /\ UNCHANGED <<transactions, risk_indicators, int_is_integer>>

CheckRiskIndicators ==
    /\ Called("check_risk_indicators", "", 0)
    /\ ret' = check_risk_indicators(transactions, risk_indicators, int_is_integer)
    /\ UNCHANGED <<transactions, risk_indicators, int_is_integer>>

CalculateVelocity ==
    /\ Called("calculate_velocity", "", 0)
    /\ ret' = calculate_velocity(transactions)
    /\ transactions' = IF ret'.exc = "none" THEN velocity_frame(transactions)
                       ELSE transactions
    /\ UNCHANGED <<risk_indicators, int_is_integer>>

AnalyzeCounterparties(address) ==
    /\ Called("analyze_counterparties", address, DefaultTopN)
    /\ ret' = analyze_counterparties(address, transactions)
    /\ UNCHANGED <<transactions, risk_indicators, int_is_integer>>

GetTopCounterparties(address, top_n) ==
    /\ Called("get_top_counterparties", address, top_n)
    /\ ret' = get_top_counterparties(address, transactions, top_n)
    /\ UNCHANGED <<transactions, risk_indicators, int_is_integer>>

\* a caller's assignment to risk_indicators['suspicious_patterns']['round_amounts']
SetRoundAmounts(flag) ==
    /\ risk_indicators.suspicious_patterns.round_amounts # flag
    /\ risk_indicators' = [risk_indicators EXCEPT !.suspicious_patterns.round_amounts = flag]
    /\ UNCHANGED <<transactions, int_is_integer, call, ret>>

(************************* specifications **********************************)
\* after construction: nothing called yet, the frame is whatever the caller loaded
InitWith(frames, interpreters) ==
    /\ transactions \in frames
    /\ risk_indicators = InitialRiskIndicators
    /\ int_is_integer \in interpreters
    /\ call = [op |-> "none", address |-> "", top_n |-> 0,
               transactions |-> transactions, self |-> risk_indicators]
    /\ ret = Raise("not called")

Init == InitWith(Frames(AllTx, MaxTx, AllAddresses), BOOLEAN)

Next ==
    \/ \E a \in AllAddresses : AnalyzeWallet(a)
    \/ CheckRiskIndicators
    \/ CalculateVelocity
    \/ \E a \in AllAddresses : AnalyzeCounterparties(a)
    \/ \E a \in AllAddresses, n \in {-1, 1, DefaultTopN} : GetTopCounterparties(a, n)
    \/ \E flag \in BOOLEAN : SetRoundAmounts(flag)

Spec == Init /\ [][Next]_vars

InitWallet == InitWith(Loaded(WalletTx, MaxWalletTx), BOOLEAN)
NextWallet == \E a \in WalletAddresses : AnalyzeWallet(a)
SpecWallet == InitWallet /\ [][NextWallet]_vars

InitRisk == InitWith(Frames(RiskTx, MaxRiskTx, {"A", "D"}), BOOLEAN)
NextRisk ==
    \/ CheckRiskIndicators
    \/ \E flag \in BOOLEAN : SetRoundAmounts(flag)
SpecRisk == InitRisk /\ [][NextRisk]_vars

InitVelocity == InitWith(Frames(VelocityTx, MaxVelocityTx, {"A", "D"}), {TRUE})
NextVelocity == CalculateVelocity
SpecVelocity == InitVelocity /\ [][NextVelocity]_vars

InitCounterparty == InitWith(Frames(PartyTx, MaxPartyTx, PartyAddresses), {TRUE})
NextCounterparty ==
    \/ \E a \in PartyAddresses : AnalyzeCounterparties(a)
    \/ \E a \in PartyAddresses, n \in TopNs : GetTopCounterparties(a, n)
SpecCounterparty == InitCounterparty /\ [][NextCounterparty]_vars

(************************* properties **************************************)
Rows == call.transactions.rows
IsAbout(address, tx) == tx.from_address = address \/ tx.to_address = address
Count(s, x) == Cardinality({i \in DOMAIN s : s[i] = x})
OtherParty(address, tx) ==
    IF tx.from_address = address THEN tx.to_address ELSE tx.from_address

RECURSIVE SumAt(_, _)
SumAt(rows, S) ==
    IF S = {} THEN 0
    ELSE LET i == CHOOSE j \in S : TRUE IN rows[i].amount + SumAt(rows, S \ {i})

RECURSIVE SumVolumes(_, _)
SumVolumes(top, S) ==
    IF S = {} THEN 0
    ELSE LET i == CHOOSE j \in S : TRUE IN top[i].volume + SumVolumes(top, S \ {i})

SecondsOf(t) ==
    IF t[1] = "str" THEN (((t[2] - 1) * 24 + t[3]) * 60 + t[4]) * 60 + t[5] ELSE t[2]
Span(rows) ==
    LET secs == {SecondsOf(rows[i].timestamp) : i \in DOMAIN rows}
    IN  (CHOOSE s \in secs : \A u \in secs : u <= s)
            - (CHOOSE s \in secs : \A u \in secs : s <= u)

RECURSIVE GCD(_, _)
GCD(a, b) == IF b = 0 THEN a ELSE GCD(b, a % b)
Reduced(p) == LET g == GCD(p[1], p[2]) IN <<p[1] \div g, p[2] \div g>>
SameFraction(p, q) == Reduced(p) = Reduced(q)

ZeroAnalysis(v) ==
    /\ v.total_transactions = 0
    /\ v.total_volume = 0
    /\ v.risk_indicators = <<>>
    /\ v.transaction_velocity = [hourly_avg |-> <<0, 1>>, daily_avg |-> <<0, 1>>]
    /\ v.counterparties.unique_counterparties = 0
    /\ v.counterparties.top_counterparties = <<>>

\* C1: analyze_wallet(a, T) for an address a that appears in no transaction
\* of T, the empty T included, returns the zero-valued analysis and does
\* not raise.
C1_AbsentAddressZeroAnalysis ==
    (call.op = "analyze_wallet"
        /\ \A i \in DOMAIN Rows : ~IsAbout(call.address, Rows[i]))
    => (ret.exc = "none" /\ ZeroAnalysis(ret.value))

\* C1, on the frames that have rows: the zero-valued analysis is returned.
ZeroAnalysisOfLoadedRows ==
    (call.op = "analyze_wallet" /\ Rows # <<>>
        /\ \A i \in DOMAIN Rows : ~IsAbout(call.address, Rows[i]))
    => (ret.exc = "none" /\ ZeroAnalysis(ret.value))

\* the rows of sub are exactly the rows of all that are about the address,
\* each once, in the order of all
ExactSelection(sub, all, address) ==
    /\ \A i \in DOMAIN sub :
         IsAbout(address, sub[i]) /\ \E j \in DOMAIN all : all[j] = sub[i]
    /\ \A j \in DOMAIN all :
         IsAbout(address, all[j]) => Count(sub, all[j]) = 1
    /\ \A i, k \in DOMAIN sub : i < k => sub[i].idx < sub[k].idx

\* C2: for every T and a, analyze_wallet works on exactly the transactions
\* of T that have a as from_address or to_address, each once and in T's
\* order, and reports their number as total_transactions and the sum of
\* their amounts as total_volume.
C2_WalletSubset ==
    call.op = "analyze_wallet"
    => /\ ret.exc = "none"
       /\ ExactSelection(ret.wallet_txs.rows, Rows, call.address)
       /\ ret.value.total_transactions = Len(ret.wallet_txs.rows)
       /\ ret.value.total_volume
            = SumAt(Rows, {j \in DOMAIN Rows : IsAbout(call.address, Rows[j])})

\* C2, on the calls that get as far: the selection is exact once it is
\* made, and the totals are right once the analysis is returned.
WalletSubsetWhenFormed ==
    call.op = "analyze_wallet"
    => /\ ret.exc # "KeyError"
            => ExactSelection(ret.wallet_txs.rows, Rows, call.address)
       /\ ret.exc = "none"
            => /\ ret.value.total_transactions = Len(ret.wallet_txs.rows)
               /\ ret.value.total_volume
                    = SumAt(Rows, {j \in DOMAIN Rows : IsAbout(call.address, Rows[j])})

\* C3: unique_counterparties returned by analyze_counterparties is the size
\* of the one combined set of the recipients of what the address sent and
\* the senders of what it received, and is at most the number of
\* transactions of that wallet.
C3_UniqueCounterparties ==
    call.op = "analyze_counterparties"
    => LET a == call.address
           combined == {x \in {Rows[i].from_address : i \in DOMAIN Rows}
                                \cup {Rows[i].to_address : i \in DOMAIN Rows} :
                          \E i \in DOMAIN Rows :
                             \/ Rows[i].from_address = a /\ Rows[i].to_address = x
                             \/ Rows[i].to_address = a /\ Rows[i].from_address = x}
       IN  /\ ret.exc = "none"
           /\ ret.value.unique_counterparties = Cardinality(combined)
           /\ ret.value.unique_counterparties
                <= Cardinality({i \in DOMAIN Rows : IsAbout(a, Rows[i])})

\* C3 witness: the address both sent to and received from its only counterparty.
C3_Witness ==
    /\ call.op = "analyze_counterparties"
    /\ ret.exc = "none"
    /\ ret.value.unique_counterparties = 1
    /\ \E i, j \in DOMAIN Rows :
         /\ Rows[i].from_address = call.address /\ Rows[i].to_address = "B"
         /\ Rows[j].to_address = call.address /\ Rows[j].from_address = "B"

IsWalletSubset == \A i \in DOMAIN Rows : IsAbout(call.address, Rows[i])
NonIncreasing(top) == \A i, k \in DOMAIN top : i < k => top[i].volume >= top[k].volume
TopWithinBounds ==
    /\ ret.exc = "none"
    /\ NonIncreasing(ret.value)
    /\ Len(ret.value)
         <= Min(call.top_n,
                analyze_counterparties(call.address, call.transactions)
                    .value.unique_counterparties)

\* C4 as stated: for every address, wallet subset and top_n, the list of
\* get_top_counterparties is sorted non-increasing by volume and no longer
\* than min(top_n, unique_counterparties).
C4_AnyTopN ==
    (call.op = "get_top_counterparties" /\ IsWalletSubset) => TopWithinBounds

\* C4 amended: the same for every top_n >= 0.
C4_NonNegativeTopN ==
    (call.op = "get_top_counterparties" /\ IsWalletSubset /\ call.top_n >= 0)
    => TopWithinBounds

\* C4 witness: two counterparties of different volume, cut to the top one.
C4_Witness ==
    /\ call.op = "get_top_counterparties" /\ IsWalletSubset /\ call.top_n = 1
    /\ analyze_counterparties(call.address, call.transactions)
          .value.unique_counterparties = 2
    /\ Len(ret.value) = 1
    /\ \E i \in DOMAIN Rows :
          Rows[i].amount < ret.value[1].volume
              /\ OtherParty(call.address, Rows[i]) # ret.value[1].address

Returned == call.op = "check_risk_indicators" /\ ret.exc = "none"
Qualifies(amount) == 2 * 9900 < amount /\ amount < 2 * 10000
StructuringAsStated ==
    Count(ret.value, StructuringFinding)
        = IF \E i \in DOMAIN Rows : Qualifies(Rows[i].amount) THEN 1 ELSE 0
MixingAsStated ==
    \A k \in DOMAIN call.self.mixing_service :
        LET m == call.self.mixing_service[k]
        IN  Count(ret.value, MixingFinding(m))
              = IF \E i \in DOMAIN Rows : Rows[i].to_address = m THEN 1 ELSE 0
RoundAsStated ==
    Count(ret.value, RoundFinding)
        = IF call.self.suspicious_patterns.round_amounts
               /\ \E i \in DOMAIN Rows : Rows[i].amount % 2 = 0
          THEN 1 ELSE 0

\* C5: check_risk_indicators emits the structuring finding exactly once if
\* some amount of the subset lies strictly between 9900 and 10000, and not
\* at all otherwise.
C5_StructuringRule ==
    call.op = "check_risk_indicators" => (ret.exc = "none" /\ StructuringAsStated)

\* C5, on the calls that return.
StructuringWhenReturned == Returned => StructuringAsStated

\* C7: for each configured mixing service m, check_risk_indicators emits
\* exactly one finding naming m if m is the to_address of some transaction
\* of the subset, and none otherwise.
C7_MixingRule ==
    call.op = "check_risk_indicators" => (ret.exc = "none" /\ MixingAsStated)

\* C7, on the calls that return.
MixingWhenReturned == Returned => MixingAsStated

\* C8: with the round-amount flag enabled, check_risk_indicators emits the
\* round-number finding exactly once if some amount is whole and not at all
\* otherwise; with the flag disabled it never emits it; and it never raises.
C8_RoundAmountRule ==
    call.op = "check_risk_indicators" => (ret.exc = "none" /\ RoundAsStated)

\* C8, on the calls that return.
RoundWhenReturned == Returned => RoundAsStated

\* C8: the only calls that raise are those on an all-integer amount column
\* with rows, the flag enabled, under an interpreter whose int has no
\* is_integer().
RaisesOnlyOnIntegerColumn ==
    (call.op = "check_risk_indicators" /\ ret.exc # "none")
    => /\ ret.exc = "AttributeError"
       /\ ~int_is_integer
       /\ call.transactions.amount_dtype = "int64"
       /\ Rows # <<>>
       /\ call.self.suspicious_patterns.round_amounts

\* C6: for a non-empty subset of n transactions spanning hours hours,
\* calculate_velocity returns hourly_avg = n / max(hours, 1) and
\* daily_avg = n / max(hours / 24, 1); neither exceeds n, and a span of at
\* most one hour gives hourly_avg = n.
C6_VelocityFloor ==
    (call.op = "calculate_velocity" /\ Rows # <<>>)
    => LET n == Len(Rows)
           span == Span(Rows)
           h == ret.value.hourly_avg
           d == ret.value.daily_avg
       IN  /\ ret.exc = "none"
           /\ h[2] > 0 /\ d[2] > 0
           /\ SameFraction(h, IF span <= 3600 THEN <<n, 1>> ELSE <<n * 3600, span>>)
           /\ SameFraction(d, IF span <= 86400 THEN <<n, 1>> ELSE <<n * 86400, span>>)
           /\ h[1] <= n * h[2]
           /\ d[1] <= n * d[2]

\* C6 witness: three transactions within the same minute, hourly_avg = 3.
C6_Witness ==
    /\ call.op = "calculate_velocity"
    /\ Len(Rows) = 3
    /\ Span(Rows) = 30
    /\ ret.exc = "none"
    /\ ret.value.hourly_avg = <<3, 1>>
    /\ ret.value.daily_avg = <<3, 1>>

\* C9: no method changes the frame it is given: after the call every record
\* holds what it held before, the timestamp in the same representation.
C9_InputNotMutated == call.op # "none" => transactions = call.transactions

\* C9, for every method but calculate_velocity.
OnlyVelocityMutates ==
    (call.op # "none" /\ transactions # call.transactions)
    => call.op = "calculate_velocity"

\* C10: get_top_counterparties attributes each amount to the other party
\* (to_address when from_address is the wallet, a self-transfer to the
\* wallet itself, else from_address); every entry's volume is the sum of
\* the amounts attributed to its address, and when no counterparty is cut
\* off the volumes sum to the total volume.
C10_Attribution ==
    call.op = "get_top_counterparties"
    => LET a == call.address
           top == ret.value
           parties == {OtherParty(a, Rows[i]) : i \in DOMAIN Rows}
       IN  /\ ret.exc = "none"
           /\ \A k \in DOMAIN top :
                /\ top[k].address \in parties
                /\ top[k].volume
                     = SumAt(Rows, {i \in DOMAIN Rows :
                                       OtherParty(a, Rows[i]) = top[k].address})
           /\ \A k, l \in DOMAIN top : k # l => top[k].address # top[l].address
           /\ Cardinality(parties) <= call.top_n
                => SumVolumes(top, DOMAIN top) = SumAt(Rows, DOMAIN Rows)

\* C10 witness: a self-transfer attributed to the wallet itself, next to
\* another counterparty, nothing cut off.
C10_Witness ==
    /\ call.op = "get_top_counterparties"
    /\ \E i \in DOMAIN Rows :
         Rows[i].from_address = call.address /\ Rows[i].to_address = call.address
    /\ \E k \in DOMAIN ret.value : ret.value[k].address = call.address
    /\ Len(ret.value) = 2
    /\ call.top_n = 2
    /\ SumVolumes(ret.value, DOMAIN ret.value) = SumAt(Rows, DOMAIN Rows)

====
